---- MODULE Spec2Model ----
(***************************************************************************)
(* Model of the WebSocket fan-out core of                                  *)
(* resources/system-design/websocket/implementation/python/main.py:        *)
(* the ConnectionManager (registry dict + room sets), the two endpoint     *)
(* coroutines (/ws and /ws/chat/{room}) and the per-connection heartbeat   *)
(* task, scheduled by a single-threaded asyncio loop (Spec), with the      *)
(* ConnectionManager's room methods called in any order (SpecManager);     *)
(* and of the replayable event stream of                                   *)
(* resources/system-design/server-sent-events/implementation/python/main.py*)
(* (SpecSSE): event_history, event_id_counter and the event_generator      *)
(* async generators that share them.                                       *)
(*                                                                         *)
(* Granularity: one action = one resumption of a coroutine, i.e. the code  *)
(* that runs from the completion of one `await` up to the next `await`     *)
(* (asyncio never switches tasks anywhere else).                           *)
(*                                                                         *)
(* Containers are modelled as CPython implements them:                     *)
(*  - active_connections is a dict: an insertion-ordered entry array in    *)
(*    which `del` leaves a tombstone; its item iterator keeps (di_used,    *)
(*    di_pos, len) and raises RuntimeError when the size differs from      *)
(*    di_used or when it meets more entries than len announced.            *)
(*  - a room is a set: a hash table whose iterator keeps (si_used, si_pos) *)
(*    and raises RuntimeError when the size differs from si_used.  The     *)
(*    slot order is the hash order of uuid strings, so the member a next() *)
(*    returns among those not yet passed is a choice, and so is the slot   *)
(*    a newly added key lands in, before or after the iterator's position. *)
(*    discard leaves a dummy in the slot, and a key that is added again    *)
(*    finds its dummy and takes the same slot back, unless a key added in  *)
(*    the meantime has taken the dummy: then it lands in any free slot.    *)
(*  Neither container is rebuilt (resized) below six insertions, which     *)
(*  the bounds stay under.                                                 *)
(***************************************************************************)
EXTENDS Integers, Sequences, FiniteSets, TLC

\* ---------------------------------------------------------------- bounds
MaxClients == 3          \* connections ever accepted
MaxFrames  == 1          \* inbound frames read, all connections together
MaxDrops   == 1          \* peers that go away
MaxBeats   == 1          \* heartbeat sleeps that end
MaxChurn   == 3          \* SpecChurn: subscribe/unsubscribe frames read

\* client_id values (uuid4: fresh, never reused); id k is the k-th connection
\* accepted, so the dict's insertion order is ascending
MaxSessions == 2         \* event_generator instances ever started
MaxCounter  == 104       \* event ids ever handed out
MaxCloses   == 1         \* stream consumers that go away

Ids   == 1..MaxClients
Rooms == {"lobby", "dev"}
ChatRooms == {"lobby"}   \* the {room} of the /ws/chat/{room} connections

None == 0                \* exclude = None / no current target
Tomb == 0                \* deleted dict entry
NoRoom == ""             \* message.get("room") is missing or empty
WS == "/ws"              \* path of websocket_endpoint

Sessions == 1..MaxSessions
Capacity == 100          \* `if len(event_history) > 100`
KeepAliveEvery == 15     \* `if event_id_counter % 15 == 0`
NoCursor == -1           \* the generator replays nothing

VARIABLES
  active_connections,    \* dict entries, insertion order, Tomb where deleted
  rooms,                 \* [room name -> set of client ids], domain grows
  pc,                    \* await each endpoint coroutine is suspended at
  path,                  \* "" not started, WS, or the room of a chat_room
  alive,                 \* transport still usable: a peer's departure takes
                         \* effect at the first send or receive that meets it
  heartbeat_task,        \* "none" unbound, "sleep", "send", "cancelled", "failed"
  frames,                \* frames read so far
  drops,                 \* peers gone so far
  beats,                 \* heartbeat sleeps ended so far
  arg,                   \* local `room` of the subscribe/unsubscribe branch
  pass,                  \* the broadcast loop a coroutine is suspended in
  unregistered,          \* history: ids disconnect() was called with
  ev,                    \* what the last step did (calls made, passes ended)
  joined,                \* SpecManager: per room, the ids that joined it and
                         \* have not left or been unregistered since
  event_history,         \* SSE: the 'id' of each stored event, oldest first
  event_id_counter,      \* SSE: the global counter
  gen,                   \* SSE: where each event_generator is suspended
  last_id,               \* SSE: a replaying generator's int(last_event_id)
  missed_events,         \* SSE: a replaying generator's list
  at,                    \* SSE: index in missed_events of the event yielded
  last_yielded,          \* SSE history: the last id yielded to the session
  appends,               \* SSE history: event_history.append calls so far
  closes                 \* SSE: consumers gone so far

ws_vars == <<active_connections, rooms, pc, path, alive, heartbeat_task,
             frames, drops, beats, arg, pass, unregistered, ev>>

sse_vars == <<event_history, event_id_counter, gen, last_id, missed_events,
              at, last_yielded, appends, closes>>

vars == <<ws_vars, joined, sse_vars>>

\* ------------------------------------------------------------ state record
NoFrame == [by |-> 0, type |-> "none"]

\* order: the slot order of the room tables as this step finds it
State(order) ==
  [ac |-> active_connections, rooms |-> rooms, pc |-> pc, path |-> path,
   alive |-> alive, hb |-> heartbeat_task, frames |-> frames,
   drops |-> drops, beats |-> beats, arg |-> arg,
   pass |-> pass, unreg |-> unregistered, order |-> order,
   ev |-> [ended |-> <<>>, disc |-> {}, frame |-> NoFrame]]

Becomes(s) ==
  /\ active_connections' = s.ac
  /\ rooms' = s.rooms
  /\ pc' = s.pc
  /\ path' = s.path
  /\ alive' = s.alive
  /\ heartbeat_task' = s.hb
  /\ frames' = s.frames
  /\ drops' = s.drops
  /\ beats' = s.beats
  /\ arg' = s.arg
  /\ pass' = s.pass
  /\ unregistered' = s.unreg
  /\ ev' = s.ev
  /\ UNCHANGED <<joined, sse_vars>>

NoPass == [type |-> "none"]

Keys(ac) == {ac[i] : i \in 1..Len(ac)} \ {Tomb}

Min(S) == CHOOSE x \in S : \A y \in S : x <= y

\* the element of S in the lowest slot
First(S, order) == CHOOSE x \in S : \A y \in S : order[x] <= order[y]

NoOrder == [h \in Ids |-> h]   \* for the steps that iterate no room

Orders == {o \in [Ids -> Ids] : \A a, b \in Ids : a # b => o[a] # o[b]}

\* the slot orders a step of h has to tell apart: one, unless it iterates a
\* room; only the relative order of ids that are in a room matters
OrdersIf(h, iterates) ==
  IF iterates
  THEN LET members == UNION {rooms[r] : r \in DOMAIN rooms} \cup {h}
       IN {o \in Orders : \A x \in Ids \ members : o[x] = x}
  ELSE {NoOrder}

\* --------------------------------------------------- ConnectionManager
connect(s, client_id) ==
  [s EXCEPT !.ac = Append(@, client_id)]

\* the rooms that hold client_id
RoomsOf(rms, client_id) == {room \in DOMAIN rms : client_id \in rms[room]}

disconnect_keep_rooms(s, client_id) ==
  [s EXCEPT !.ac = [i \in 1..Len(@) |-> IF @[i] = client_id THEN Tomb ELSE @[i]],
            !.unreg = @ \cup {client_id},
            !.ev.disc = @ \cup {[id |-> client_id,
                                  present |-> client_id \in Keys(s.ac),
                                  was_in |-> RoomsOf(s.rooms, client_id)]}]

\* disconnect, lines 38-45
disconnect(s, client_id) ==
  [s EXCEPT !.ac = [i \in 1..Len(@) |-> IF @[i] = client_id THEN Tomb ELSE @[i]],
            !.rooms = [room \in DOMAIN @ |-> @[room] \ {client_id}],
            !.unreg = @ \cup {client_id},
            !.ev.disc = @ \cup {[id |-> client_id,
                                  present |-> client_id \in Keys(s.ac),
                                  was_in |-> RoomsOf(s.rooms, client_id)]}]

\* the slot of client_id, passed by the iterator of p and left as a dummy
\* when the key was discarded, has stayed free since: the key goes back into it
OwnSlot(p, client_id) ==
  client_id \in p.behind /\ client_id \notin p.stolen

\* Behind: the coroutines whose running iterator over this room has already
\* passed the slot the new key lands in.
join_room(s, client_id, room, Behind) ==
  LET known == IF room \in DOMAIN s.rooms THEN s.rooms[room] ELSE {}
      fresh == client_id \notin known
  IN [s EXCEPT
        !.rooms = [r \in DOMAIN @ \cup {room} |->
                     IF r = room THEN known \cup {client_id} ELSE @[r]],
        !.pass = [h \in Ids |->
                     IF fresh /\ @[h].type = "room" /\ @[h].room = room
                          /\ ~OwnSlot(@[h], client_id)
                     THEN [@[h] EXCEPT
                             !.behind = IF h \in Behind THEN @ \cup {client_id}
                                                        ELSE @ \ {client_id},
                             !.stolen = (@ \cup (s.pass[h].behind \ known))
                                          \ {client_id}]
                     ELSE @[h]]]

leave_room_drop_empty(s, client_id, room) ==
  IF room \in DOMAIN s.rooms
  THEN [s EXCEPT !.rooms =
          [r \in DOMAIN @ \ (IF @[room] \ {client_id} = {} THEN {room} ELSE {})
             |-> IF r = room THEN @[r] \ {client_id} ELSE @[r]]]
  ELSE s

leave_room(s, client_id, room) ==
  IF room \in DOMAIN s.rooms
  THEN [s EXCEPT !.rooms[room] = @ \ {client_id}]
  ELSE s

get_room_count(s, room) ==
  IF room \in DOMAIN s.rooms THEN Cardinality(s.rooms[room]) ELSE 0


send_personal_message_always(s, h, tag) ==
  [s EXCEPT !.pc[h] = tag]

\* ------------------------------------------------ control flow of a handler
RECURSIVE NextAll(_, _), NextRoom(_, _), Finally(_, _), After(_, _, _)

\* the handler coroutine ends (returns or dies with the exception): the
\* server closes its socket
Terminate(s, h) ==
  [s EXCEPT !.pc[h] = "done", !.alive[h] = FALSE]

\* the code after `await manager.broadcast...(...)` returns, up to the next await
Return(s, h, ret) ==
  CASE ret = "joined" -> [s EXCEPT !.hb[h] = "sleep", !.pc[h] = "recv"]
    [] ret = "recv"   -> [s EXCEPT !.pc[h] = "recv"]
    [] OTHER          -> Terminate(s, h)

\* an exception leaves the coroutine's current statement
Except(s, h, ret) ==
  IF ret = "end" THEN Terminate(s, h) ELSE Finally(s, h)

\* the pass of h is over: s0 is the state its loop ended in, s the state it
\* leaves behind
EndPass(s, h, outcome, s0) ==
  LET p == s.pass[h]
  IN [s EXCEPT !.pass[h] = NoPass,
               !.ev.ended = Append(@,
                  [by |-> h, type |-> p.type, room |-> p.room,
                   exclude |-> p.exclude, snap |-> p.snap, tried |-> p.tried,
                   dead |-> p.dead, outcome |-> outcome,
                   keys0 |-> Keys(s0.ac), rooms0 |-> s0.rooms,
                   keys |-> Keys(s.ac), rooms |-> s.rooms])]

RECURSIVE DisconnectAll(_, _)
DisconnectAll(s, disconnected) ==
  IF disconnected = <<>> THEN s
  ELSE DisconnectAll(disconnect(s, Head(disconnected)), Tail(disconnected))

RECURSIVE DiscardAll(_, _, _)
DiscardAll(s, room, disconnected) ==
  IF disconnected = <<>> THEN s
  ELSE DiscardAll([s EXCEPT !.rooms[room] = @ \ {Head(disconnected)}],
                  room, Tail(disconnected))

\* broadcast, lines 65-67, then the return to the caller
FinishAll(s, h) ==
  LET p == s.pass[h]
  IN Return(EndPass(DisconnectAll(s, p.dead), h, "returned", s), h, p.ret)

\* broadcast_to_room, lines 89-91, then the return to the caller
FinishRoom(s, h) ==
  LET p == s.pass[h]
  IN Return(EndPass(DiscardAll(s, p.room, p.dead), h, "returned", s), h, p.ret)

\* RuntimeError out of the `for` statement
Raise(s, h) ==
  LET p == s.pass[h]
  IN Except(EndPass(s, h, "raised", s), h, p.ret)

\* first live entry after position pos, 0 when there is none
NextEntry(ac, pos) ==
  LET live == {i \in (pos + 1)..Len(ac) : ac[i] # Tomb}
  IN IF live = {} THEN 0 ELSE Min(live)

skip_exclude_never(client_id, exclude) == FALSE

\* `if client_id == exclude: continue`
skip_exclude(client_id, exclude) == client_id = exclude

\* broadcast, lines 56-61: next() on the dict item iterator, then the body up
\* to `await connection.send_json(message)`
NextAll(s, h) ==
  LET p == s.pass[h]
      i == NextEntry(s.ac, p.pos)
  IN IF p.used # Cardinality(Keys(s.ac)) THEN Raise(s, h)
     ELSE IF i = 0 THEN FinishAll(s, h)
     ELSE IF p.len = 0 THEN Raise(s, h)
     ELSE LET s1 == [s EXCEPT !.pass[h].pos = i, !.pass[h].len = @ - 1]
          IN IF skip_exclude(s.ac[i], p.exclude)
             THEN NextAll(s1, h)
             ELSE [s1 EXCEPT !.pass[h].cur = s.ac[i],
                             !.pass[h].tried = Append(@, s.ac[i]),
                             !.pc[h] = "bcast"]

\* broadcast_to_room, lines 76-85: next() on the set iterator, then the body
\* up to `await ...send_json(message)`
NextRoom(s, h) ==
  LET p == s.pass[h]
      members == s.rooms[p.room]
      pending == members \ p.behind
  IN IF p.used # Cardinality(members) THEN Raise(s, h)
     ELSE IF pending = {} THEN FinishRoom(s, h)
     ELSE LET client_id == First(pending, s.order)
              s1 == [s EXCEPT !.pass[h].behind = @ \cup {client_id}]
          IN IF skip_exclude(client_id, p.exclude)
             THEN NextRoom(s1, h)
             ELSE IF client_id \notin Keys(s.ac)
             THEN NextRoom([s1 EXCEPT !.pass[h].dead = Append(@, client_id)], h)
             ELSE [s1 EXCEPT !.pass[h].cur = client_id,
                             !.pass[h].tried = Append(@, client_id),
                             !.pc[h] = "rbcast"]

\* broadcast, lines 54-56: the call up to the first await
broadcast(s, h, exclude, ret) ==
  NextAll([s EXCEPT !.pass[h] =
      [type |-> "all", room |-> NoRoom, exclude |-> exclude, ret |-> ret,
       used |-> Cardinality(Keys(s.ac)), pos |-> 0,
       len |-> Cardinality(Keys(s.ac)), behind |-> {},
       cur |-> None, dead |-> <<>>,
       snap |-> Keys(s.ac), tried |-> <<>>]], h)

\* broadcast_to_room, lines 71-76: the call up to the first await
broadcast_to_room(s, h, room, exclude, ret) ==
  IF room \notin DOMAIN s.rooms
  THEN Return([s EXCEPT !.ev.ended = Append(@,
                  [by |-> h, type |-> "room", room |-> room,
                   exclude |-> exclude, snap |-> {}, tried |-> <<>>,
                   dead |-> <<>>, outcome |-> "returned",
                   keys0 |-> Keys(s.ac), rooms0 |-> s.rooms,
                   keys |-> Keys(s.ac), rooms |-> s.rooms])], h, ret)
  ELSE NextRoom([s EXCEPT !.pass[h] =
      [type |-> "room", room |-> room, exclude |-> exclude, ret |-> ret,
       used |-> Cardinality(s.rooms[room]), pos |-> 0,
       len |-> 0, behind |-> {}, stolen |-> {},
       cur |-> None, dead |-> <<>>,
       snap |-> s.rooms[room], tried |-> <<>>]], h)

send_personal_message_cleaning(s, h, tag) ==
  IF h \in Keys(s.ac) THEN [s EXCEPT !.pc[h] = tag]
  ELSE After(disconnect(s, h), h, tag)

\* send_personal_message, lines 49-50: the call up to the await, or through
\* to the caller's next statement when the id is absent
send_personal_message(s, h, tag) ==
  IF h \in Keys(s.ac) THEN [s EXCEPT !.pc[h] = tag] ELSE After(s, h, tag)

\* the statement after a personal send that returned
After(s, h, tag) ==
  CASE tag = "welcome"   -> broadcast(s, h, h, "joined")
    [] tag = "c_welcome" -> broadcast_to_room(s, h, s.path[h], h, "recv")
    [] tag \in {"send_subscribed", "send_unsubscribed"}
                         -> broadcast_to_room(s, h, s.arg[h], h, "recv")
    [] OTHER             -> [s EXCEPT !.pc[h] = "recv"]

\* heartbeat_task.cancel(): a finished task stays as it is
cancel(s, h) ==
  [s EXCEPT !.hb[h] = IF @ \in {"sleep", "send"} THEN "cancelled" ELSE @]

\* the finally blocks, lines 224-234 and 289-298, up to the await
Finally(s, h) ==
  IF s.path[h] = WS
  THEN IF s.hb[h] = "none"
       THEN Terminate(s, h)      \* heartbeat_task is unbound: UnboundLocalError
       ELSE broadcast(disconnect(cancel(s, h), h), h, None, "end")
  ELSE broadcast_to_room(disconnect(leave_room(s, h, s.path[h]), h),
                         h, s.path[h], None, "end")

\* ------------------------------------------------------------------ frames
\* what json.loads / message.get("type", "message") / message.get("room")
\* make of an inbound text frame on /ws
WsFrames ==
  {[type |-> t, room |-> NoRoom] :
     t \in {"invalid", "ping", "other", "subscribe", "message"}}
  \cup {[type |-> t, room |-> r] :
          t \in {"subscribe", "unsubscribe", "message"}, r \in Rooms}

PersonalSends ==
  {"welcome", "c_welcome", "send_pong", "send_subscribed", "send_unsubscribed",
   "send_error"}

\* the coroutines whose set iterator a new member of `room` can land behind
Iterating(room, client_id) ==
  IF room \in DOMAIN rooms /\ client_id \in rooms[room] THEN {}
  ELSE {g \in Ids : /\ pass[g].type = "room" /\ pass[g].room = room
                    /\ ~OwnSlot(pass[g], client_id)}

\* websocket_endpoint, lines 146-219: one frame, up to the next await
OnFrame(s, h, f, Behind) ==
  CASE f.type = "invalid" -> send_personal_message(s, h, "send_error")
    [] f.type = "ping"    -> send_personal_message(s, h, "send_pong")
    [] f.type = "subscribe" /\ f.room # NoRoom ->
         send_personal_message(
           [join_room(s, h, f.room, Behind) EXCEPT !.arg[h] = f.room],
           h, "send_subscribed")
    [] f.type = "unsubscribe" /\ f.room # NoRoom ->
         send_personal_message(
           [leave_room(s, h, f.room) EXCEPT !.arg[h] = f.room],
           h, "send_unsubscribed")
    [] f.type = "message" /\ f.room # NoRoom ->
         broadcast_to_room(s, h, f.room, None, "recv")
    [] f.type = "message" /\ f.room = NoRoom ->
         broadcast(s, h, None, "recv")
    [] OTHER -> [s EXCEPT !.pc[h] = "recv"]

\* ----------------------------------------------------------------- actions
Init ==
  /\ active_connections = <<>>
  /\ rooms = <<>>
  /\ pc = [h \in Ids |-> "idle"]
  /\ path = [h \in Ids |-> ""]
  /\ alive = [h \in Ids |-> TRUE]
  /\ heartbeat_task = [h \in Ids |-> "none"]
  /\ frames = 0
  /\ drops = 0
  /\ beats = 0
  /\ arg = [h \in Ids |-> NoRoom]
  /\ pass = [h \in Ids |-> NoPass]
  /\ unregistered = {}
  /\ ev = [ended |-> <<>>, disc |-> {}, frame |-> NoFrame]
  /\ joined = <<>>
  /\ event_history = <<>>
  /\ event_id_counter = 0
  /\ gen = [s \in Sessions |-> "idle"]
  /\ last_id = [s \in Sessions |-> NoCursor]
  /\ missed_events = [s \in Sessions |-> <<>>]
  /\ at = [s \in Sessions |-> 0]
  /\ last_yielded = [s \in Sessions |-> 0]
  /\ appends = 0
  /\ closes = 0

\* websocket_endpoint, lines 126-134: accept, register, welcome up to its send
ConnectWs(h) ==
  /\ pc[h] = "idle"
  /\ \A g \in Ids : g < h => pc[g] # "idle"
  /\ Becomes(send_personal_message(
       [connect(State(NoOrder), h) EXCEPT !.path[h] = WS], h, "welcome"))

\* chat_room, lines 255-265
ConnectChat(h, room) ==
  /\ pc[h] = "idle"
  /\ \A g \in Ids : g < h => pc[g] # "idle"
  /\ \E Behind \in SUBSET Iterating(room, h) :
       Becomes(send_personal_message(
         join_room([connect(State(NoOrder), h) EXCEPT !.path[h] = room],
                   h, room, Behind),
         h, "c_welcome"))

\* what a send on, or a receive from, the transport of c can meet
Outcomes(c) ==
  IF ~alive[c] THEN {FALSE}
  ELSE IF drops < MaxDrops THEN {TRUE, FALSE} ELSE {TRUE}

\* the transport of c is found broken
Broken(s, c) ==
  IF s.alive[c] THEN [s EXCEPT !.alive[c] = FALSE, !.drops = @ + 1] ELSE s

\* a personal send_json completes or raises
PersonalSendDone(h) ==
  /\ pc[h] \in PersonalSends
  /\ \E ok \in Outcomes(h) :
     \E order \in OrdersIf(h, pc[h] \notin {"send_pong", "send_error"} /\
                             (ok => pc[h] # "welcome")) :
       Becomes(IF ok THEN After(State(order), h, pc[h])
                     ELSE Except(Broken(State(order), h), h, "try"))

\* broadcast, lines 60-63, then the next turn of the loop
BroadcastSendDone(h) ==
  /\ pc[h] = "bcast"
  /\ LET cur == pass[h].cur
     IN \E ok \in Outcomes(cur) :
          Becomes(NextAll(IF ok THEN State(NoOrder)
                          ELSE [Broken(State(NoOrder), cur) EXCEPT
                                  !.pass[h].dead = Append(@, cur)],
                          h))

\* broadcast_to_room, lines 84-87, then the next turn of the loop
RoomSendDone(h) ==
  /\ pc[h] = "rbcast"
  /\ LET cur == pass[h].cur
     IN \E ok \in Outcomes(cur), order \in OrdersIf(h, TRUE) :
          Becomes(NextRoom(IF ok THEN State(order)
                           ELSE [Broken(State(order), cur) EXCEPT
                                   !.pass[h].dead = Append(@, cur)],
                           h))

\* websocket_endpoint, line 148 and the branch taken
ReceiveWs(h) ==
  /\ pc[h] = "recv" /\ path[h] = WS
  /\ frames < MaxFrames
  /\ \E f \in WsFrames :
     \E order \in OrdersIf(h, f.room # NoRoom /\
                             (f.type = "message" \/ h \notin Keys(active_connections))) :
       \E Behind \in SUBSET (IF f.type = "subscribe" /\ f.room # NoRoom
                             THEN Iterating(f.room, h) ELSE {}) :
         Becomes(OnFrame([State(order) EXCEPT
                            !.frames = @ + 1,
                            !.ev.frame = [by |-> h, type |-> f.type]],
                         h, f, Behind))

\* chat_room, lines 275-284
ReceiveChat(h) ==
  /\ pc[h] = "recv" /\ path[h] # WS
  /\ frames < MaxFrames
  /\ \E order \in OrdersIf(h, TRUE) :
       Becomes(broadcast_to_room([State(order) EXCEPT !.frames = @ + 1],
                                 h, path[h], None, "recv"))

\* receive_text raises WebSocketDisconnect
ReceiveDisconnect(h) ==
  /\ pc[h] = "recv"
  /\ FALSE \in Outcomes(h)
  /\ \E order \in OrdersIf(h, path[h] # WS) :
       Becomes(Except(Broken(State(order), h), h, "try"))

\* send_heartbeat, lines 241-245: the sleep ends
HeartbeatWake(h) ==
  /\ heartbeat_task[h] = "sleep"
  /\ beats < MaxBeats
  /\ Becomes([State(NoOrder) EXCEPT
       !.hb[h] = IF h \in Keys(active_connections) THEN "send" ELSE "sleep",
       !.beats = @ + 1])

\* send_heartbeat: the heartbeat send_json completes, or raises and ends the task
HeartbeatSendDone(h) ==
  /\ heartbeat_task[h] = "send"
  /\ \E ok \in Outcomes(h) :
       Becomes(IF ok THEN [State(NoOrder) EXCEPT !.hb[h] = "sleep"]
                     ELSE [Broken(State(NoOrder), h) EXCEPT !.hb[h] = "failed"])

Next ==
  \E h \in Ids :
    \/ ConnectWs(h)
    \/ \E room \in ChatRooms : ConnectChat(h, room)
    \/ PersonalSendDone(h)
    \/ BroadcastSendDone(h)
    \/ RoomSendDone(h)
    \/ ReceiveWs(h)
    \/ ReceiveChat(h)
    \/ ReceiveDisconnect(h)
    \/ HeartbeatWake(h)
    \/ HeartbeatSendDone(h)

Spec == Init /\ [][Next]_vars

TypeOK ==
  /\ Keys(active_connections) \subseteq Ids
  /\ DOMAIN rooms \subseteq Rooms
  /\ frames <= MaxFrames /\ drops <= MaxDrops /\ beats <= MaxBeats

\* ------------------------------------------- members coming and going
\* SpecChurn: the same server with clients that only join and leave one room:
\* /ws clients that send subscribe and unsubscribe frames for it, and
\* /ws/chat clients of that room; no heartbeat sleep ends meanwhile
ChurnFrames ==
  {[type |-> t, room |-> "lobby"] : t \in {"subscribe", "unsubscribe"}}

\* websocket_endpoint, line 148 and the subscribe or unsubscribe branch
ReceiveChurn(h) ==
  /\ pc[h] = "recv" /\ path[h] = WS
  /\ frames < MaxChurn
  /\ \E f \in ChurnFrames :
     \E order \in OrdersIf(h, h \notin Keys(active_connections)) :
       \E Behind \in SUBSET (IF f.type = "subscribe"
                             THEN Iterating(f.room, h) ELSE {}) :
         Becomes(OnFrame([State(order) EXCEPT
                            !.frames = @ + 1,
                            !.ev.frame = [by |-> h, type |-> f.type]],
                         h, f, Behind))

NextChurn ==
  \E h \in Ids :
    \/ ConnectWs(h)
    \/ \E room \in ChatRooms : ConnectChat(h, room)
    \/ PersonalSendDone(h)
    \/ BroadcastSendDone(h)
    \/ RoomSendDone(h)
    \/ ReceiveChurn(h)
    \/ ReceiveDisconnect(h)

SpecChurn == Init /\ [][NextChurn]_vars

\* ------------------------------------- the ConnectionManager, called directly
\* SpecManager: connect, join_room, leave_room and disconnect called in any
\* order with any arguments, as the class allows; no endpoint coroutine runs
ManagerBecomes(s) ==
  /\ active_connections' = s.ac
  /\ rooms' = s.rooms
  /\ unregistered' = s.unreg
  /\ UNCHANGED <<pc, path, alive, heartbeat_task, frames, drops, beats, arg,
                 pass, ev, sse_vars>>

CallConnect(h) ==
  /\ Len(active_connections) = h - 1
  /\ h \notin unregistered
  /\ ManagerBecomes(connect(State(NoOrder), h))
  /\ UNCHANGED joined

CallJoinRoom(client_id, room) ==
  /\ ManagerBecomes(join_room(State(NoOrder), client_id, room, {}))
  /\ joined' = [r \in DOMAIN joined \cup {room} |->
                  IF r = room
                  THEN (IF r \in DOMAIN joined THEN joined[r] ELSE {})
                         \cup {client_id}
                  ELSE joined[r]]

CallLeaveRoom(client_id, room) ==
  /\ ManagerBecomes(leave_room(State(NoOrder), client_id, room))
  /\ joined' = [r \in DOMAIN joined |->
                  IF r = room THEN joined[r] \ {client_id} ELSE joined[r]]

CallDisconnect(client_id) ==
  /\ ManagerBecomes(disconnect(State(NoOrder), client_id))
  /\ joined' = [r \in DOMAIN joined |-> joined[r] \ {client_id}]

NextManager ==
  \E h \in Ids :
    \/ CallConnect(h)
    \/ \E room \in Rooms : CallJoinRoom(h, room)
    \/ \E room \in Rooms : CallLeaveRoom(h, room)
    \/ CallDisconnect(h)

SpecManager == Init /\ [][NextManager]_vars

\* ------------------------------------------------- server-sent events stream
\* One action = one resumption of an event_generator: from the completion of
\* `await asyncio.sleep(2)`, or from the consumer asking for the next item
\* after a yield, up to the next sleep or yield.  The three yields that frame
\* one event (id:, event:, data:) are taken as one: nothing is read or
\* written between them.

\* the Last-Event-ID header: missing, "", a text int() rejects, or an integer
CursorIds == {0, 2, 100}

LastEventIds ==
  {[kind |-> k, val |-> 0] : k \in {"none", "empty", "text"}}
  \cup {[kind |-> "int", val |-> k] : k \in CursorIds}

since_newest_first(history, last) ==
  LET r == SelectSeq(history, LAMBDA e : e > last)
  IN [i \in 1..Len(r) |-> r[Len(r) + 1 - i]]

since_known_only(history, last) ==
  IF \E i \in 1..Len(history) : history[i] = last
  THEN SelectSeq(history, LAMBDA e : e > last)
  ELSE <<>>

since_inclusive(history, last) == SelectSeq(history, LAMBDA e : e >= last)

\* line 42: [e for e in event_history if e['id'] > last_id]
since(history, last) == SelectSeq(history, LAMBDA e : e > last)

\* lines 39-49: the list the generator replays; nothing when the header is
\* missing or empty (falsy) or when int() raises ValueError
missed(history, last_event_id) ==
  IF last_event_id.kind = "int" THEN since(history, last_event_id.val)
  ELSE <<>>

next_id_same(counter) == counter

\* `event_id_counter += 1`
next_id(counter) == counter + 1

evict_never(history) == history

\* lines 79-80
evict(history) ==
  IF Len(history) > Capacity THEN Tail(history) ELSE history

\* lines 52-53: the connected event, up to its yield
ConnectedEvent(s) ==
  /\ event_id_counter < MaxCounter
  /\ event_id_counter' = next_id(event_id_counter)
  /\ gen' = [gen EXCEPT ![s] = "connected"]
  /\ last_yielded' = [last_yielded EXCEPT ![s] = event_id_counter']
  /\ last_id' = [last_id EXCEPT ![s] = NoCursor]
  /\ missed_events' = [missed_events EXCEPT ![s] = <<>>]
  /\ at' = [at EXCEPT ![s] = 0]
  /\ UNCHANGED <<event_history, appends, closes>>

\* lines 39-45 (or 39-53): the generator starts
OpenStream(s, last_event_id) ==
  /\ gen[s] = "idle"
  /\ \A r \in Sessions : r < s => gen[r] # "idle"
  /\ LET m == missed(event_history, last_event_id)
     IN IF m # <<>>
        THEN /\ gen' = [gen EXCEPT ![s] = "replay"]
             /\ last_id' = [last_id EXCEPT ![s] = last_event_id.val]
             /\ missed_events' = [missed_events EXCEPT ![s] = m]
             /\ at' = [at EXCEPT ![s] = 1]
             /\ last_yielded' = [last_yielded EXCEPT ![s] = m[1]]
             /\ UNCHANGED <<event_history, event_id_counter, appends, closes>>
        ELSE ConnectedEvent(s)
  /\ UNCHANGED <<ws_vars, joined>>

\* lines 44-47, then 52-53 when the list is exhausted
ReplayYieldDone(s) ==
  /\ gen[s] = "replay"
  /\ IF at[s] < Len(missed_events[s])
     THEN /\ at' = [at EXCEPT ![s] = @ + 1]
          /\ last_yielded' = [last_yielded EXCEPT
                                ![s] = missed_events[s][at[s] + 1]]
          /\ UNCHANGED <<event_history, event_id_counter, gen, last_id,
                         missed_events, appends, closes>>
     ELSE ConnectedEvent(s)
  /\ UNCHANGED <<ws_vars, joined>>

\* lines 55-61: into the loop, up to the sleep
ConnectedYieldDone(s) ==
  /\ gen[s] = "connected"
  /\ gen' = [gen EXCEPT ![s] = "sleep"]
  /\ UNCHANGED <<event_history, event_id_counter, last_id, missed_events, at,
                 last_yielded, appends, closes>>
  /\ UNCHANGED <<ws_vars, joined>>

SleepDone_after_close(s) ==
  /\ gen[s] \in {"sleep", "closed"}
  /\ event_id_counter < MaxCounter
  /\ event_id_counter' = next_id(event_id_counter)
  /\ event_history' = evict(Append(event_history, event_id_counter'))
  /\ appends' = appends + 1
  /\ gen' = [gen EXCEPT ![s] = "update"]
  /\ last_yielded' = [last_yielded EXCEPT ![s] = event_id_counter']
  /\ UNCHANGED <<last_id, missed_events, at, closes>>
  /\ UNCHANGED <<ws_vars, joined>>

\* lines 64-83: the sleep is over; count, store, trim, yield
SleepDone(s) ==
  /\ gen[s] = "sleep"
  /\ event_id_counter < MaxCounter
  /\ event_id_counter' = next_id(event_id_counter)
  /\ event_history' = evict(Append(event_history, event_id_counter'))
  /\ appends' = appends + 1
  /\ gen' = [gen EXCEPT ![s] = "update"]
  /\ last_yielded' = [last_yielded EXCEPT ![s] = event_id_counter']
  /\ UNCHANGED <<last_id, missed_events, at, closes>>
  /\ UNCHANGED <<ws_vars, joined>>

\* lines 88-89, or back to the sleep of line 61
UpdateYieldDone(s) ==
  /\ gen[s] = "update"
  /\ gen' = [gen EXCEPT ![s] = IF event_id_counter % KeepAliveEvery = 0
                               THEN "heartbeat" ELSE "sleep"]
  /\ UNCHANGED <<event_history, event_id_counter, last_id, missed_events, at,
                 last_yielded, appends, closes>>
  /\ UNCHANGED <<ws_vars, joined>>

\* line 89, then back to the sleep of line 61
HeartbeatYieldDone(s) ==
  /\ gen[s] = "heartbeat"
  /\ gen' = [gen EXCEPT ![s] = "sleep"]
  /\ UNCHANGED <<event_history, event_id_counter, last_id, missed_events, at,
                 last_yielded, appends, closes>>
  /\ UNCHANGED <<ws_vars, joined>>

\* the consumer goes away: CancelledError in the sleep (lines 91-93), or the
\* generator is closed at the yield it is suspended in
CloseStream(s) ==
  /\ gen[s] \in {"replay", "connected", "sleep", "update", "heartbeat"}
  /\ closes < MaxCloses
  /\ closes' = closes + 1
  /\ gen' = [gen EXCEPT ![s] = "closed"]
  /\ last_id' = [last_id EXCEPT ![s] = NoCursor]
  /\ missed_events' = [missed_events EXCEPT ![s] = <<>>]
  /\ at' = [at EXCEPT ![s] = 0]
  /\ UNCHANGED <<event_history, event_id_counter, last_yielded, appends>>
  /\ UNCHANGED <<ws_vars, joined>>

NextSSE ==
  \E s \in Sessions :
    \/ \E last_event_id \in LastEventIds : OpenStream(s, last_event_id)
    \/ ReplayYieldDone(s)
    \/ ConnectedYieldDone(s)
    \/ SleepDone(s)
    \/ UpdateYieldDone(s)
    \/ HeartbeatYieldDone(s)
    \/ CloseStream(s)

SpecSSE == Init /\ [][NextSSE]_vars

\* ------------------------------------------------------------------ claims
Range(q) == {q[i] : i \in 1..Len(q)}

Ended == Range(ev.ended)

\* the ids a pass was called to deliver to
Targets(e) == e.snap \ {e.exclude}

\* C1: the registry never holds one identifier twice, an identifier that
\* disconnect() was called with is absent from the registry ever after, and a
\* send_personal_message that looks such an identifier up (from a handler or
\* from the heartbeat task) goes on to no send
C1_UniqueAndAbsentAfterDisconnect ==
  /\ [](/\ \A i, j \in 1..Len(active_connections) :
             (active_connections[i] # Tomb
                /\ active_connections[i] = active_connections[j]) => i = j
        /\ unregistered \cap Keys(active_connections) = {})
  /\ [][\A h \in Ids :
          (\/ pc'[h] \in PersonalSends /\ pc'[h] # pc[h]
           \/ heartbeat_task'[h] = "send" /\ heartbeat_task[h] # "send")
          => h \notin unregistered']_vars

\* an unregistered connection whose handler ran the subscribe branch after
\* the disconnect (it is back in a room), looked itself up, sent nothing and
\* waits for the next frame, while another connection is still registered
C1_Witness ==
  \E h \in unregistered :
    /\ h \notin Keys(active_connections)
    /\ RoomsOf(rooms, h) # {}
    /\ pc[h] = "recv"
    /\ Keys(active_connections) # {}

\* C2: after every disconnect(id) call, whichever rooms id had joined, no
\* room's member set contains id
C2_DisconnectedInNoRoom ==
  \A d \in ev.disc : RoomsOf(rooms, d.id) = {}

\* disconnect() was called with an id that was a member of a room
C2_Witness ==
  \E d \in ev.disc : d.was_in # {} /\ RoomsOf(rooms, d.id) = {}

\* C3 (as claimed): a broadcast without exclusion attempts a delivery to every
\* connection that was in the registry when it was called, whatever happens to
\* the registry while it is suspended
C3_BroadcastReachesAllPresent ==
  \A e \in Ended :
    (e.type = "all" /\ e.exclude = None) => e.snap \subseteq Range(e.tried)

\* C4: a pass with exclude = X, over the registry or over a room, makes no
\* delivery attempt to X, never puts X in its disconnected list, and its
\* cleanup removes X neither from the registry nor from a room
C4_ExcludedNeverTouched ==
  /\ \A h \in Ids :
       (pass[h].type # "none" /\ pass[h].exclude # None) =>
         /\ pass[h].exclude \notin Range(pass[h].tried)
         /\ pass[h].exclude \notin Range(pass[h].dead)
         /\ pass[h].exclude # pass[h].cur
  /\ \A e \in Ended :
       e.exclude # None =>
         /\ e.exclude \notin Range(e.tried)
         /\ e.exclude \notin Range(e.dead)
         /\ e.exclude \in e.keys0 => e.exclude \in e.keys
         /\ RoomsOf(e.rooms0, e.exclude) \subseteq RoomsOf(e.rooms, e.exclude)

\* a pass that returned, had its excluded id among the candidates it iterated,
\* attempted another target and found a dead one
C4_Witness ==
  \E e \in Ended :
    /\ e.outcome = "returned"
    /\ e.exclude \in e.snap
    /\ e.tried # <<>>
    /\ e.dead # <<>>

\* C5 (as claimed): a room broadcast attempts a delivery exactly to the
\* members the room had when it was called, minus the excluded id
C5_RoomBroadcastExactlyMembers ==
  \A e \in Ended :
    e.type = "room" => Range(e.tried) = Targets(e)

\* C6 (as claimed): when a send fails during a broadcast over the registry,
\* the pass still returns, every other target was attempted, and the failed
\* connections are in no registry and no room once it is over
C6_FailureDoesNotStopBroadcast ==
  \A e \in Ended :
    (e.type = "all" /\ e.dead # <<>>) =>
      /\ e.outcome = "returned"
      /\ Targets(e) \subseteq Range(e.tried)
      /\ \A d \in Range(e.dead) : d \notin e.keys /\ RoomsOf(e.rooms, d) = {}

\* C7 (as claimed): after broadcast_to_room returns, every id in its
\* disconnected list is absent from the registry and from every room
C7_RoomBroadcastUnregistersDead ==
  \A e \in Ended :
    (e.type = "room" /\ e.outcome = "returned") =>
      \A d \in Range(e.dead) : d \notin e.keys /\ RoomsOf(e.rooms, d) = {}

\* C8 (as claimed): a broadcast over the registry is never aborted by a
\* registration or unregistration made while it is suspended, attempts exactly
\* the targets present when it started, and re-adds nothing
C8_BroadcastIteratesSnapshot ==
  \A e \in Ended :
    e.type = "all" =>
      /\ e.outcome = "returned"
      /\ Range(e.tried) = Targets(e)
      /\ e.keys \subseteq e.keys0

\* C9 (as claimed): a room broadcast is never aborted by a join, leave or
\* disconnect made while it is suspended, and every member present when it
\* started is attempted (or found missing from the registry)
C9_RoomBroadcastIteratesSnapshot ==
  \A e \in Ended :
    e.type = "room" =>
      /\ e.outcome = "returned"
      /\ Targets(e) \subseteq Range(e.tried) \cup Range(e.dead)

\* C10 (as claimed): once a handler has terminated, its connection id is in
\* no registry and no room
C10_TerminatedHandlerIsUnregistered ==
  \A h \in Ids :
    pc[h] = "done" =>
      h \notin Keys(active_connections) /\ RoomsOf(rooms, h) = {}

\* C11 (as claimed): disconnect of an id that is not in the registry removes
\* nothing from any room, leave_room of a non-member or of an unknown room
\* and get_room_count of an unknown room (0) change neither the registry nor
\* the rooms, and none of them creates or deletes a room
C11_AbsentTargetsAreNoOps ==
  /\ \A d \in ev.disc : ~d.present => d.was_in = {}
  /\ \A h \in Ids, room \in Rooms :
       LET s == State(NoOrder)
       IN /\ (room \notin DOMAIN rooms \/ h \notin rooms[room]) =>
               /\ leave_room(s, h, room).rooms = rooms
               /\ leave_room(s, h, room).ac = active_connections
          /\ room \notin DOMAIN rooms => get_room_count(s, room) = 0
          /\ h \notin Keys(active_connections) =>
               /\ disconnect(s, h).ac = active_connections
               /\ DOMAIN disconnect(s, h).rooms = DOMAIN rooms

\* C12: whatever sequence of join_room, leave_room and disconnect calls is
\* made, get_room_count(room) is the number of distinct ids that joined the
\* room and have not left it or been unregistered since, and a room once
\* created stays in the room map, with count 0 when it is empty
C12_RoomCountIsJoinedNotLeft ==
  /\ DOMAIN rooms = DOMAIN joined
  /\ \A room \in Rooms :
       get_room_count(State(NoOrder), room) =
         IF room \in DOMAIN joined THEN Cardinality(joined[room]) ELSE 0

\* a room emptied by leave_room or disconnect is still in the map, next to a
\* room with two members, after a connection was unregistered
C12_Witness ==
  /\ unregistered # {}
  /\ \E room \in DOMAIN rooms : rooms[room] = {}
  /\ \E room \in DOMAIN rooms : Cardinality(rooms[room]) = 2

\* C13 (as claimed): the step of a /ws handler that reads an unparseable frame
\* starts one error send to the connection that sent it and nothing else, and
\* that connection is in the registry
C13_MalformedFrameReportedToSender ==
  \A h \in Ids :
    ev.frame = [by |-> h, type |-> "invalid"] =>
      /\ pc[h] = "send_error"
      /\ pass[h] = NoPass
      /\ h \in Keys(active_connections)

Ascending(q) == \A i \in 1..(Len(q) - 1) : q[i] < q[i + 1]

Last(q) == q[Len(q)]

\* a step in which generator s makes a new event (connected or update)
Generates(s) ==
  /\ gen'[s] # gen[s]
  /\ gen'[s] \in {"connected", "update"}

\* C14: event_history never holds more than 100 events, and an append that
\* finds it full drops exactly the oldest stored event and adds the new one
C14_LogBoundedFifo ==
  /\ [](Len(event_history) <= Capacity)
  /\ [][appends' # appends =>
          event_history' =
            Append(IF Len(event_history) = Capacity THEN Tail(event_history)
                                                   ELSE event_history,
                   event_id_counter')]_vars

\* the log is full, its first events were evicted, two generators are live
C14_Witness ==
  /\ Len(event_history) = Capacity
  /\ appends > Capacity + 1
  /\ \A s \in Sessions : gen[s] \in {"sleep", "update"}

\* C15: every generated event (stored update or connected) gets an id greater
\* than every id handed out before, by whichever session; the stored ids are
\* strictly ascending; a step changes the stored events only by dropping the
\* oldest and adding the new one, never the id of one that stays
C15_IdsNeverReused ==
  /\ [](/\ Ascending(event_history)
        /\ \A i \in 1..Len(event_history) :
             event_history[i] <= event_id_counter
        /\ \A s \in Sessions : last_yielded[s] <= event_id_counter)
  /\ [][/\ event_id_counter' >= event_id_counter
        /\ \A s \in Sessions :
             Generates(s) =>
               /\ event_id_counter' = event_id_counter + 1
               /\ last_yielded'[s] = event_id_counter'
        /\ IF appends' # appends
           THEN /\ Last(event_history') = event_id_counter'
                /\ event_id_counter' > event_id_counter
                /\ \E k \in {0, 1} :
                     SubSeq(event_history', 1, Len(event_history') - 1) =
                       SubSeq(event_history, 1 + k, Len(event_history))
           ELSE event_history' = event_history]_vars

\* both generators have made events, the stored ids have a gap where a
\* connected event took an id, and the oldest events were evicted
C15_Witness ==
  /\ \A s \in Sessions : gen[s] \in {"sleep", "update"} /\ last_yielded[s] > 2
  /\ \E i \in 1..(Len(event_history) - 1) :
       event_history[i + 1] > event_history[i] + 1
  /\ appends > Capacity

\* C16 (as claimed): after n appends the stored ids are consecutive, start at
\* 1 while nothing was evicted, and start at n - 100 + 1 afterwards
C16_StoredIdsConsecutiveFromOne ==
  \A i \in 1..Len(event_history) :
    event_history[i] =
      (IF appends > Capacity THEN appends - Capacity ELSE 0) + i

\* C17: the list a generator replays for a cursor holds exactly the stored
\* events with a greater id, in ascending order; computing it changes neither
\* event_history nor event_id_counter, and computing it again from the same
\* log gives the same list
C17_ReplayIsExactlyNewer ==
  [][\A s \in Sessions :
       /\ (gen[s] = "idle" /\ gen'[s] = "replay") =>
            /\ Range(missed_events'[s]) =
                 {e \in Range(event_history) : e > last_id'[s]}
            /\ Ascending(missed_events'[s])
            /\ missed_events'[s] = since(event_history', last_id'[s])
            /\ event_history' = event_history
            /\ event_id_counter' = event_id_counter
            /\ appends' = appends
       /\ (gen[s] = "replay" /\ gen'[s] = "replay") =>
            missed_events'[s] = missed_events[s]]_vars

\* a generator has just computed its replay list: some stored events are in
\* it and some, not newer than the cursor, are left out
C17_Witness ==
  \E s \in Sessions :
    /\ gen[s] = "replay" /\ at[s] = 1
    /\ Len(missed_events[s]) >= 2
    /\ missed_events[s] = since(event_history, last_id[s])
    /\ \E e \in Range(event_history) : e <= last_id[s]

\* a cursor below the ids still stored, after events were evicted
Stale(k) ==
  /\ appends > Capacity
  /\ k < event_history[1]

\* C18: a generator started with a cursor below the retention window replays
\* the whole retained log, oldest first, one event per yield in ascending
\* order, and leaves the replay only for the connected event and the live
\* loop (or because its consumer went away)
C18_StaleCursorReplaysRetained ==
  /\ [](\A k \in CursorIds :
          Stale(k) =>
            missed(event_history, [kind |-> "int", val |-> k]) = event_history)
  /\ [](\A s \in Sessions :
          gen[s] = "replay" =>
            /\ at[s] \in 1..Len(missed_events[s])
            /\ last_yielded[s] = missed_events[s][at[s]])
  /\ [][\A s \in Sessions :
          /\ (gen[s] = "idle" /\ gen'[s] = "replay" /\ Stale(last_id'[s])) =>
               /\ missed_events'[s] = event_history
               /\ at'[s] = 1
          /\ (gen[s] = "replay" /\ gen'[s] = "replay" /\ at'[s] # at[s]) =>
               at'[s] = at[s] + 1
          /\ (gen[s] = "replay" /\ gen'[s] # "replay") =>
               \/ gen'[s] = "closed"
               \/ at[s] = Len(missed_events[s]) /\ gen'[s] = "connected"
          /\ (gen[s] = "connected" /\ gen'[s] # "connected") =>
               gen'[s] \in {"sleep", "closed"}]_vars

\* a generator started with cursor 2 after event 2 was evicted has yielded
\* all 100 retained events, the oldest of them first
C18_Witness ==
  \E s \in Sessions :
    /\ gen[s] = "replay"
    /\ last_id[s] = 2
    /\ missed_events[s][1] > 3
    /\ Len(missed_events[s]) = Capacity
    /\ at[s] = Capacity

\* the replay list of s is k+1..n for its cursor k
Consecutive(s) ==
  \A i \in 1..Len(missed_events[s]) : missed_events[s][i] = last_id[s] + i

\* C19 (as claimed): a generator started with cursor k when the events after
\* k in the log are k+1..n yields k+1..n in order first, and the first new id
\* it yields after them is n+1
C19_ReplayThenNewIdsFollow ==
  /\ [](\A s \in Sessions :
          (gen[s] = "replay" /\ Consecutive(s)) =>
            last_yielded[s] = last_id[s] + at[s])
  /\ [][\A s \in Sessions :
          (gen[s] = "replay" /\ Consecutive(s) /\ gen'[s] = "connected") =>
            last_yielded'[s] = Last(missed_events[s]) + 1]_vars

\* C20 (as claimed): an open session is never handed an id while a stored
\* event with an id between that one and the last id it was handed (its
\* cursor) has not been yielded to it
C20_NoMissedEvent ==
  [][\A s \in Sessions :
       (gen[s] # "idle" /\ last_yielded'[s] # last_yielded[s]) =>
         ~ \E i \in 1..Len(event_history') :
             /\ last_yielded[s] < event_history'[i]
             /\ event_history'[i] < last_yielded'[s]]_vars

\* C21: the ids yielded to one session never decrease, from the first replayed
\* event through the connected event and the live events, whatever the other
\* sessions do in between
C21_YieldedIdsNeverDecrease ==
  [][\A s \in Sessions : last_yielded'[s] >= last_yielded[s]]_vars

\* a session is past the second event of its replay while the other one,
\* still live, has stored newer events than the replay list holds
C21_Witness ==
  \E s, r \in Sessions :
    /\ gen[s] = "replay" /\ at[s] >= 2
    /\ gen[r] \in {"sleep", "update"}
    /\ Last(event_history) > Last(missed_events[s])

\* C22: a closed session stays closed and is yielded nothing more, and every
\* step that advances event_id_counter or changes event_history is the step of
\* a session that is not closed
C22_ClosedSessionIsSilent ==
  [][/\ \A s \in Sessions :
          gen[s] = "closed" =>
            /\ gen'[s] = "closed"
            /\ last_yielded'[s] = last_yielded[s]
     /\ (event_id_counter' # event_id_counter
           \/ event_history' # event_history) =>
          \E r \in Sessions :
            /\ gen[r] # "closed"
            /\ gen'[r] # gen[r]
            /\ last_yielded'[r] = event_id_counter']_vars

\* one session is closed and the other has just stored and yielded an event
\* two ids past the last one the closed session was handed
C22_Witness ==
  \E s, r \in Sessions :
    /\ gen[s] = "closed"
    /\ gen[r] = "update"
    /\ last_yielded[r] = event_id_counter
    /\ Last(event_history) = event_id_counter
    /\ last_yielded[r] > last_yielded[s] + 1

C24_HeartbeatFailureCleansUp ==
  \A h \in Ids :
    (heartbeat_task[h] = "failed" /\ pc[h] = "recv") =>
      h \notin Keys(active_connections) /\ RoomsOf(rooms, h) = {}

\* C25: send_personal_message starts at most one send, to the id it was given
\* and only when that id is registered, and neither the call nor the end of
\* the send (delivered or failed) changes the registry or a room
C25_PersonalSendMutatesNothing ==
  /\ [](\A h \in Ids, tag \in {"send_pong", "send_error"} :
          LET s == State(NoOrder)
              r == send_personal_message(s, h, tag)
          IN /\ r.ac = active_connections
             /\ r.rooms = rooms
             /\ r.unreg = unregistered
             /\ r.ev.disc = {}
             /\ r.pc[h] = IF h \in Keys(active_connections) THEN tag
                                                            ELSE "recv"
             /\ \A g \in Ids \ {h} : r.pc[g] = pc[g])
  /\ [][\A h \in Ids :
          (\/ pc[h] \in {"send_pong", "send_error"} /\ pc'[h] = "recv"
           \/ heartbeat_task[h] = "send"
                /\ heartbeat_task'[h] \in {"sleep", "failed"}) =>
            /\ active_connections' = active_connections
            /\ rooms' = rooms]_vars

\* the heartbeat send to a connection that is in a room has failed: the
\* connection is still registered and still in the room
C25_Witness ==
  \E h \in Ids :
    /\ heartbeat_task[h] = "failed"
    /\ h \in Keys(active_connections)
    /\ RoomsOf(rooms, h) # {}

\* C26 (as claimed): no pass of broadcast or broadcast_to_room, in progress
\* or just ended, has started a send to the same target twice
C26_OneAttemptPerTarget ==
  /\ \A h \in Ids :
       pass[h].type # "none" =>
         \A i, j \in 1..Len(pass[h].tried) :
           i # j => pass[h].tried[i] # pass[h].tried[j]
  /\ \A k \in 1..Len(ev.ended) :
       \A i, j \in 1..Len(ev.ended[k].tried) :
         i # j => ev.ended[k].tried[i] # ev.ended[k].tried[j]

\* C27 (as claimed), for a session that is alone, so that the events it has
\* generated are the events appended: the keep-alive is yielded after an
\* update event exactly when that event is its 15th, 30th, ... and the step
\* that yields it hands out no id, stores nothing and advances no counter
C27_KeepAliveEvery15thOwnEvent ==
  [][\A s \in Sessions :
       /\ (/\ gen[s] = "update"
           /\ gen'[s] \in {"sleep", "heartbeat"}
           /\ \A r \in Sessions \ {s} : gen[r] = "idle") =>
            (gen'[s] = "heartbeat" <=> appends % KeepAliveEvery = 0)
       /\ gen'[s] = "heartbeat" =>
            /\ event_id_counter' = event_id_counter
            /\ event_history' = event_history
            /\ last_yielded'[s] = last_yielded[s]]_vars

\* C28 (as claimed): a replay read sees every id reserved so far: each id
\* after its cursor that the counter has handed out, and that was not evicted
\* from a full log, is in the list it computes
C28_NoReservedIdWithoutEvent ==
  [][\A r \in Sessions :
       (gen[r] = "idle" /\ gen'[r] = "replay") =>
         \A i \in (last_id'[r] + 1)..event_id_counter :
           \/ \E k \in 1..Len(missed_events'[r]) : missed_events'[r][k] = i
           \/ appends > Capacity /\ i < event_history[1]]_vars

\* C29 (as claimed): every id in a room's member set is in the registry
C29_RoomMembersAreRegistered ==
  \A room \in DOMAIN rooms : rooms[room] \subseteq Keys(active_connections)

====
